---- MODULE Spec2Model ----
(***************************************************************************)
(* holy-loader: the progress engine (class HolyProgress), the module-level *)
(* animation queue (utils.ts `queue`) and the navigation binder (the       *)
(* HolyLoader component of index.tsx), with the document and the History   *)
(* API as the environment.                                                 *)
(*                                                                         *)
(* Numbers: progress is a fraction of the bar width.  It is kept here in   *)
(* thousandths (Scale = 1000 is the value 1, PMax = 994 is 0.994).         *)
(*                                                                         *)
(* Timers: every setTimeout of the engine uses the same delay              *)
(* (settings.speed), so pending timers expire in the order in which they   *)
(* were created; `timers` is that FIFO and only its head can fire.         *)
(***************************************************************************)
EXTENDS Integers, Sequences, FiniteSets, TLC

\* progressN === null, and the absence of a node
Null == -1
NoNode == 0

\* ---------------------------------------------------------------- bounds
\* user operations (mounts, teardowns, clicks, history calls) in a behaviour
MaxOps == 5
\* the count of stalled tasks saturates here
MaxStalled == 2

\* ------------------------------------------------------ program constants
Scale == 1000
PMax == 994
ExpOne == 10000

One == Scale

\* every engine but the first takes a teardown and a mount
Engines == 1..(1 + (MaxOps \div 2))
\* every node but those of the first engine takes a user operation
NodeIds == 1..(MaxOps + 2)

\* settings.initialPosition values explored by Spec (thousandths): one below
\* the cap of incrementStatus, where the trickle saturates after a few ticks,
\* and the end position.  SpecInc explores the others, the default 80 included.
InitialPositions == {990, 1000}

\* ------------------------------------------------------------------ URLs
\* A URL: scheme, hostname as its sequence of labels, port, pathname,
\* search as its sequence of <<key, value>> pairs, and fragment.  A URL
\* without scheme is relative; U builds a URL without port.
U(scheme, host, path, query, frag) ==
    [scheme |-> scheme, host |-> host, port |-> "", path |-> path,
     query |-> query, frag |-> frag]

WithPort(url, port) == [url EXCEPT !.port = port]

\* a string `new URL` rejects
Malformed == U("", <<>>, "malformed", <<>>, "")

ExampleCom == <<"example", "com">>
WwwExampleCom == <<"www", "example", "com">>
OtherCom == <<"other", "com">>

X1 == <<"x", "1">>
X2 == <<"x", "2">>
Y2 == <<"y", "2">>

PageUrl == U("https", ExampleCom, "/page", <<>>, "")
PageX1Url == U("https", ExampleCom, "/page", <<X1>>, "")
PageX2Url == U("https", ExampleCom, "/page", <<X2>>, "")
PageX1Y2Url == U("https", ExampleCom, "/page", <<X1, Y2>>, "")
PageY2X1Url == U("https", ExampleCom, "/page", <<Y2, X1>>, "")
OtherUrl == U("https", ExampleCom, "/other", <<>>, "")

\* URLs handed to history.pushState / history.replaceState
NavUrls == {PageUrl, PageX1Url, OtherUrl}

\* F(x), with x evaluated once
Let(x, F(_)) == CHOOSE out \in {F(v) : v \in {x}} : TRUE

VARIABLES
    initialPosition,  \* settings.initialPosition
    showSpinner,      \* settings.showSpinner
    ignoreSearchParams, \* the ignoreSearchParams option handed to the component
    delay,            \* the delay option handed to the component, in milliseconds
    nEngines,         \* number of HolyProgress instances constructed so far
    mounted,          \* engine of the binder whose effect is live, 0 if none
    listeners,        \* the document's event listeners, in order of registration
    progressN,        \* HolyProgress.progressN, per engine
    bar,              \* HolyProgress.bar, per engine: the node whose role="bar" child it holds
    docBars,          \* nodes with id 'holy-progress' in the document, in document order
    docSpinners,      \* number of nodes with id 'holy-progress-spinner' in the document
    faded,            \* the bar nodes in the document whose style.opacity is '0'
    pending,          \* the queue's `pending` array
    timers,           \* pending setTimeout callbacks, in expiry order
    stalled,          \* started tasks that returned without calling next
    wrappers,         \* layers wrapped around history.pushState, innermost first
    location,         \* window.location
    trace,            \* calls made by the handler that ran last, in order
    ops,              \* user operations so far
    watch             \* stopwatch started by complete(): 0 off, 1/2 first/second
                      \* duration running, 3 both elapsed; .e is the engine

vars == <<initialPosition, showSpinner, ignoreSearchParams, delay, nEngines,
          mounted, listeners, progressN, bar, docBars, docSpinners, faded, pending,
          timers,
          stalled, wrappers, location, trace, ops, watch>>

\* the options, fixed at construction
settings == <<initialPosition, showSpinner, ignoreSearchParams, delay>>

\* the binders' lifecycle
binders == <<nEngines, mounted, listeners>>

\* The mutable program state as one record, threaded through the handlers.
Cur ==
    [progressN |-> progressN, bar |-> bar, docBars |-> docBars,
     docSpinners |-> docSpinners, faded |-> faded, pending |-> pending,
     timers |-> timers,
     stalled |-> stalled, wrappers |-> wrappers, location |-> location,
     trace |-> <<>>, watch |-> watch]

Commit(s) ==
    \E r \in {s} :
        /\ progressN' = r.progressN
        /\ bar' = r.bar
        /\ docBars' = r.docBars
        /\ docSpinners' = r.docSpinners
        /\ faded' = r.faded
        /\ pending' = r.pending
        /\ timers' = r.timers
        /\ stalled' = r.stalled
        /\ wrappers' = r.wrappers
        /\ location' = r.location
        /\ trace' = r.trace
        /\ watch' = r.watch
        /\ UNCHANGED settings

Timer(kind, e, node) == [kind |-> kind, e |-> e, node |-> node]

Log(s, what, e) == [s EXCEPT !.trace = Append(@, <<what, e>>)]

Min(a, b) == IF a < b THEN a ELSE b
Max(a, b) == IF a > b THEN a ELSE b

SeqToSet(q) == {q[i] : i \in 1..Len(q)}

\* --------------------------------------------------------------- stopwatch
NotWatch(t) == t.kind # "watch"

\* start()/incrementStatus() was called: the stopwatch of the last complete() is void
StopWatch(s) ==
    [s EXCEPT !.timers = SelectSeq(@, NotWatch), !.watch = [n |-> 0, e |-> 0]]

\* mark of a trickle timer whose loop was started before a complete()
Finished == 1

\* complete() was called on e: the trickle loops of e that are running now
\* belong to a finished run
MarkFinished(ts, e) ==
    [i \in 1..Len(ts) |->
        IF ts[i].kind = "trickle" /\ ts[i].e = e
        THEN [ts[i] EXCEPT !.node = Finished] ELSE ts[i]]

\* complete() was called on e: time two transition durations from now
StartWatch(s, e) ==
    [s EXCEPT !.timers = Append(MarkFinished(SelectSeq(@, NotWatch), e),
                                Timer("watch", 0, 0)),
              !.watch = [n |-> 1, e |-> e]]

\* ------------------------------------------------------------ utils.ts
clamp(n, min, max) == Max(min, Min(n, max))

\* ------------------------------------------------------------ the document
getElementById(s) == IF s.docBars = <<>> THEN NoNode ELSE Head(s.docBars)

NodesInUse(s) ==
    SeqToSet(s.docBars)
    \cup {s.bar[e] : e \in Engines}
    \cup {s.timers[i].node : i \in {j \in 1..Len(s.timers) :
                                        s.timers[j].kind \in {"fade1", "fade2"}}}
    \cup {s.pending[i].node : i \in 1..Len(s.pending)}

\* document.createElement: a node no reference is held to
FreshNode(s) == CHOOSE n \in NodeIds :
                    /\ n \notin NodesInUse(s)
                    /\ \A m \in NodeIds : m < n => m \in NodesInUse(s)

\* createBar: this.bar is set, the container is appended to document.body.
\* Result: the new state and the container.
createBar(s, e, fromStart) ==
    LET node == FreshNode(s) IN
    [s |-> [s EXCEPT !.bar[e] = node, !.docBars = Append(@, node)],
     node |-> node]

\* getOrCreateBar that does not look the node up first
getOrCreateBar_Always(s, e, fromStart) == createBar(s, e, fromStart)

getOrCreateBar(s, e, fromStart) ==
    IF getElementById(s) # NoNode
    THEN [s |-> s, node |-> getElementById(s)]
    ELSE createBar(s, e, fromStart)

\* removeBarFromDOM that leaves the node in the document
removeBarFromDOM_Kept(s) == s

\* getElementById(...)?.remove(): the first node with the id leaves the document
removeBarFromDOM(s) ==
    IF s.docBars = <<>> THEN s
    ELSE [s EXCEPT !.docBars = Tail(@), !.faded = @ \ {Head(s.docBars)}]

removeSpinnerFromDOM(s) ==
    IF s.docSpinners = 0 THEN s ELSE [s EXCEPT !.docSpinners = @ - 1]

\* createSpinner without the getElementById test
createSpinner_Always(s) == [s EXCEPT !.docSpinners = @ + 1]

createSpinner(s) ==
    IF s.docSpinners # 0 THEN s ELSE [s EXCEPT !.docSpinners = @ + 1]

\* ------------------------------------------------------------ the queue
\* a task that treats position 1 like any other position: no fade-out, no
\* removal
RunTask_NoFade(s, task) ==
    IF s.bar[task.e] = NoNode
    THEN [s EXCEPT !.stalled = Min(@ + 1, MaxStalled)]
    ELSE [s EXCEPT !.timers = Append(@, Timer("next", 0, 0))]

\* The task setTo enqueues, run with the queue's `next` as continuation.
RunTask(s, task) ==
    IF s.bar[task.e] = NoNode
    THEN [s EXCEPT !.stalled = Min(@ + 1, MaxStalled)]
    ELSE IF task.n = One
         THEN [s EXCEPT !.faded = @ \ {task.node},
                        !.timers = Append(@, Timer("fade1", task.e, task.node))]
         ELSE [s EXCEPT !.timers = Append(@, Timer("next", 0, 0))]

\* a continuation that leaves the head of `pending` waiting
next_Wait(s) == s

\* const next = () => { const fn = pending.shift(); if (fn) fn(next) }
next(s) ==
    IF s.pending = <<>>
    THEN s
    ELSE RunTask([s EXCEPT !.pending = Tail(@)], Head(s.pending))

\* a queue that stores the task and never starts it
queue_Hold(s, task) == [s EXCEPT !.pending = Append(@, task)]

\* (fn) => { pending.push(fn); if (pending.length === 1) next() }
queue(s, task) ==
    LET s1 == [s EXCEPT !.pending = Append(@, task)] IN
    IF Len(s1.pending) = 1 THEN next(s1) ELSE s1

\* ------------------------------------------------------------ HolyProgress
\* setTo that clamps to 0..1 instead of initialPosition..1
setTo_NoFloor(s, e, n0) ==
    LET SetTo(n) ==
            LET isStarted == s.progressN[e] # Null
                s1 == [s EXCEPT !.progressN[e] = IF n = One THEN Null ELSE n]
                Enqueue(g) == queue(g.s, [e |-> e, n |-> n, node |-> g.node])
            IN Let(getOrCreateBar(s1, e, ~isStarted), Enqueue)
    IN Let(clamp(n0, 0, One), SetTo)

setTo(s, e, n0) ==
    LET SetTo(n) ==
            LET isStarted == s.progressN[e] # Null
                s1 == [s EXCEPT !.progressN[e] = IF n = One THEN Null ELSE n]
                Enqueue(g) == queue(g.s, [e |-> e, n |-> n, node |-> g.node])
            IN Let(getOrCreateBar(s1, e, ~isStarted), Enqueue)
    IN Let(clamp(n0, initialPosition, One), SetTo)

startTrickle(s, e) ==
    [s EXCEPT !.timers = Append(@, Timer("trickle", e, 0))]

\* start without the `progressN === null` guard
start_Unguarded(s0, e) ==
    LET s == StopWatch(Log(s0, "start", e))
        s1 == setTo(s, e, 0)
        s2 == startTrickle(s1, e)
    IN IF showSpinner THEN createSpinner(s2) ELSE s2

start(s0, e) ==
    LET s == StopWatch(Log(s0, "start", e)) IN
    IF s.progressN[e] = Null
    THEN LET s1 == setTo(s, e, 0)
             s2 == startTrickle(s1, e)
         IN IF showSpinner THEN createSpinner(s2) ELSE s2
    ELSE s

complete(s, e) == StartWatch(setTo(Log(s, "complete", e), e, One), e)

\* an increment that moves the bar back
calculateIncrement_Back(status) == 0 - 7

\* base * Math.exp(-scale * status) with base 0.1 and scale 5, in fixed point:
\* exp(-x) = (exp(-x/8))^8, exp(-y) by its series to the fourth power; the
\* result is rounded up, so that it is positive as it is in floating point.
calculateIncrement(status) ==
    LET y == (status * 25) \div 4
        a4 == ExpOne - (y \div 4)
        a3 == ExpOne - ((y * a4) \div (3 * ExpOne))
        a2 == ExpOne - ((y * a3) \div (2 * ExpOne))
        a1 == ExpOne - ((y * a2) \div ExpOne)
        r2 == (a1 * a1) \div ExpOne
        r4 == (r2 * r2) \div ExpOne
        r8 == (r4 * r4) \div ExpOne
    IN (r8 + 99) \div 100

\* incrementStatus() called without an amount
NoAmount == 999999

\* incrementStatus that clamps the sum to 1 instead of 0.994
incrementStatus_ClampOne(s0, e, amount) ==
    LET s == StopWatch(Log(s0, "increment", e)) IN
    IF s.progressN[e] = Null THEN start(s, e)
    ELSE IF s.progressN[e] > One THEN s
    ELSE LET amt == IF amount = NoAmount
                    THEN calculateIncrement(s.progressN[e]) ELSE amount
             p == clamp(s.progressN[e] + amt, 0, One)
         IN setTo([s EXCEPT !.progressN[e] = p], e, p)

incrementStatus(s0, e, amount) ==
    LET s == StopWatch(Log(s0, "increment", e)) IN
    IF s.progressN[e] = Null THEN start(s, e)
    ELSE IF s.progressN[e] > One THEN s
    ELSE LET amt == IF amount = NoAmount
                    THEN calculateIncrement(s.progressN[e]) ELSE amount
             p == clamp(s.progressN[e] + amt, 0, PMax)
         IN setTo([s EXCEPT !.progressN[e] = p], e, p)

\* a trickle loop that finishes the bar itself once progress is at the cap
run_UntilDone(s, t) ==
    IF s.progressN[t.e] = Null THEN s
    ELSE IF s.progressN[t.e] >= PMax THEN setTo(s, t.e, One)
    ELSE LET s1 == incrementStatus(s, t.e, NoAmount) IN
         [s1 EXCEPT !.timers = Append(@, t)]

\* the `run` closure of startTrickle
\* t is the timer that fired: setTimeout(run, speed) re-arms the same closure
run(s, t) ==
    IF s.progressN[t.e] = Null THEN s
    ELSE LET s1 == incrementStatus(s, t.e, NoAmount) IN
         [s1 EXCEPT !.timers = Append(@, t)]

\* ------------------------------------------------------------ URL predicates
\* new URL(url, window.location.href).href: an absolute URL is kept, a
\* relative one takes the missing leading parts from the location.
\* The serialisation is the parser's: a special scheme has no empty path
\* and no default port.
SpecialSchemes == {"http", "https", "ftp"}

DefaultPort(scheme) ==
    IF scheme = "https" THEN "443"
    ELSE IF scheme = "http" THEN "80"
    ELSE IF scheme = "ftp" THEN "21"
    ELSE ""

Normalised(url) ==
    IF url.scheme \in SpecialSchemes
    THEN [url EXCEPT !.path = IF @ = "" THEN "/" ELSE @,
                     !.port = IF @ = DefaultPort(url.scheme) THEN "" ELSE @]
    ELSE url

\* toAbsoluteURL that resolves every reference, the empty one included, by
\* overwriting the location field by field
toAbsoluteURL_KeepFragment(loc, url) ==
    IF url.scheme # "" THEN Normalised(url)
    ELSE IF url.path # ""
         THEN [loc EXCEPT !.path = url.path, !.query = url.query,
                          !.frag = url.frag]
    ELSE IF url.query # <<>>
         THEN [loc EXCEPT !.query = url.query, !.frag = url.frag]
    ELSE IF url.frag # "" THEN [loc EXCEPT !.frag = url.frag]
    ELSE loc

toAbsoluteURL(loc, url) ==
    IF url.scheme # "" THEN Normalised(url)
    ELSE IF url.path # ""
         THEN [loc EXCEPT !.path = url.path, !.query = url.query, !.frag = url.frag]
    ELSE IF url.query # <<>>
         THEN [loc EXCEPT !.query = url.query, !.frag = url.frag]
    ELSE [loc EXCEPT !.frag = url.frag]

\* hostname.replace(/^www\./, '')
StripWww(host) ==
    IF Len(host) > 1 /\ Head(host) = "www" THEN Tail(host) ELSE host

\* isSameHost that compares URL.host (hostname and port) instead of
\* URL.hostname
isSameHost_WithPort(loc, currentUrl, newUrl) ==
    LET current == toAbsoluteURL(loc, currentUrl)
        next_ == toAbsoluteURL(loc, newUrl)
    IN  /\ StripWww(current.host) = StripWww(next_.host)
        /\ current.port = next_.port

isSameHost(loc, currentUrl, newUrl) ==
    StripWww(toAbsoluteURL(loc, currentUrl).host)
        = StripWww(toAbsoluteURL(loc, newUrl).host)

\* href.split('#')[0]: the URL without its fragment
WithoutFragment(url) == [url EXCEPT !.frag = ""]

\* isSamePageAnchor that compares the hrefs with their fragments
isSamePageAnchor_WithFragment(loc, currentUrl, newUrl) ==
    toAbsoluteURL(loc, currentUrl) = toAbsoluteURL(loc, newUrl)

isSamePageAnchor(loc, currentUrl, newUrl) ==
    WithoutFragment(toAbsoluteURL(loc, currentUrl))
        = WithoutFragment(toAbsoluteURL(loc, newUrl))

\* URLSearchParams.has / .get: get returns the first value of the key
ParamsHas(params, key) == \E i \in 1..Len(params) : params[i][1] = key

ParamsGet(params, key) ==
    params[CHOOSE i \in 1..Len(params) :
              /\ params[i][1] = key
              /\ \A j \in 1..(i - 1) : params[j][1] # key][2]

paramsAreEqual(params1, params2) ==
    \A i \in 1..Len(params1) :
        /\ ParamsHas(params2, params1[i][1])
        /\ ParamsGet(params2, params1[i][1]) = params1[i][2]

\* hasSameQueryParameters that checks one direction only
hasSameQueryParameters_OneWay(loc, currentUrl, newUrl) ==
    LET currentParams == toAbsoluteURL(loc, currentUrl).query
        nextParams == toAbsoluteURL(loc, newUrl).query
    IN paramsAreEqual(currentParams, nextParams)

hasSameQueryParameters(loc, currentUrl, newUrl) ==
    LET currentParams == toAbsoluteURL(loc, currentUrl).query
        nextParams == toAbsoluteURL(loc, newUrl).query
    IN paramsAreEqual(currentParams, nextParams)
       /\ paramsAreEqual(nextParams, currentParams)

isSamePathname(loc, currentUrl, newUrl) ==
    toAbsoluteURL(loc, currentUrl).path = toAbsoluteURL(loc, newUrl).path

\* the schemes in use whose name begins with 'http'
HttpPrefixed == {"http", "https", "httpx"}

\* toAbsoluteURL(anchor.href).startsWith('http')
StartsWithHttp(url) == url.scheme \in HttpPrefixed

\* ------------------------------------------------------------ the binder
startProgress(s, e) == start(s, e)

\* holyProgress.done(): the engine's completion method, complete()
stopProgress(s, e) == complete(s, e)

\* history.pushState is replaced by a closure around the current one
overridePushState(s, e) == [s EXCEPT !.wrappers = Append(@, e)]

\* A click event: whether its target has closest(), whether an anchor
\* encloses it, the anchor's target and href, and the modifier keys.
Ev(closest, anchor, target, ctrlKey, metaKey, href) ==
    [closest |-> closest, anchor |-> anchor, target |-> target,
     ctrlKey |-> ctrlKey, metaKey |-> metaKey, href |-> href]

\* handleClick whose catch block is empty
handleClick_Silent(s, e, ev) ==
    IF ~ev.closest THEN s
    ELSE IF ~ev.anchor \/ ev.target = "_blank" \/ ev.ctrlKey \/ ev.metaKey THEN s
    ELSE IF ev.href = Malformed THEN s
    ELSE IF \/ ~isSameHost(s.location, s.location, ev.href)
            \/ isSamePageAnchor(s.location, s.location, ev.href)
            \/ ~StartsWithHttp(toAbsoluteURL(s.location, ev.href))
         THEN s
         ELSE overridePushState(startProgress(s, e), e)

handleClick(s, e, ev) ==
    IF ~ev.closest THEN stopProgress(s, e)
    ELSE IF ~ev.anchor \/ ev.target = "_blank" \/ ev.ctrlKey \/ ev.metaKey THEN s
    ELSE IF ev.href = Malformed THEN stopProgress(s, e)
    ELSE IF \/ ~isSameHost(s.location, s.location, ev.href)
            \/ isSamePageAnchor(s.location, s.location, ev.href)
            \/ ~StartsWithHttp(toAbsoluteURL(s.location, ev.href))
         THEN s
         ELSE overridePushState(startProgress(s, e), e)

\* the browser's own pushState / replaceState, called with `url`
NativeHistory(s, url) ==
    Log([s EXCEPT !.location = toAbsoluteURL(s.location, url)], "original", url)

\* a wrapper that does not call the method it wrapped
CallPushState_Swallow(s, k, url) ==
    IF k = 0 THEN NativeHistory(s, url) ELSE stopProgress(s, s.wrappers[k])

\* history.pushState as currently installed: layer k runs stopProgress of
\* its binder, then the method it wrapped
RECURSIVE CallPushState(_, _, _)
CallPushState(s, k, url) ==
    IF k = 0 THEN NativeHistory(s, url)
    ELSE CallPushState(stopProgress(s, s.wrappers[k]), k - 1, url)

pushState(s, url) == CallPushState(Log(s, "pushState", url), Len(s.wrappers), url)

\* history.replaceState is never replaced
replaceState(s, url) == NativeHistory(Log(s, "replaceState", url), url)

\* ------------------------------------------------------------ events
\* constants.ts: the names of the two application-wide signals
START_HOLY_EVENT == "holy-progress-start"
STOP_HOLY_EVENT == "holy-progress-stop"

Listener(type, e) == [type |-> type, e |-> e]

\* document.addEventListener('click', handleClick) of the effect
addListeners(ls, e) == Append(ls, Listener("click", e))

\* a cleanup that removes nothing
cleanup_Kept(ls, e) == ls

\* the effect's cleanup: document.removeEventListener('click', handleClick)
cleanup(ls, e) ==
    LET Others(l) == l # Listener("click", e) IN SelectSeq(ls, Others)

\* the listeners of the dispatched type run in order of registration; every
\* listener the binder registers is a handleClick
RECURSIVE Deliver(_, _, _, _)
Deliver(s, ls, type, ev) ==
    IF ls = <<>> THEN s
    ELSE Deliver(IF Head(ls).type = type
                 THEN handleClick(Log(s, "handleClick", Head(ls).e), Head(ls).e, ev)
                 ELSE s,
                 Tail(ls), type, ev)

\* document.dispatchEvent, and the browser's dispatch of a user's click
dispatchEvent(s, ls, type, ev) == Deliver(Log(s, type, 0), ls, type, ev)

\* ------------------------------------------------------------ environment
QualifyingClick == Ev(TRUE, TRUE, "", FALSE, FALSE, OtherUrl)

ClickEvents ==
    { QualifyingClick,
      [QualifyingClick EXCEPT !.closest = FALSE],
      [QualifyingClick EXCEPT !.anchor = FALSE],
      [QualifyingClick EXCEPT !.target = "_blank"],
      [QualifyingClick EXCEPT !.ctrlKey = TRUE],
      [QualifyingClick EXCEPT !.metaKey = TRUE],
      [QualifyingClick EXCEPT !.href = Malformed],
      [QualifyingClick EXCEPT !.href = PageUrl],
      [QualifyingClick EXCEPT !.href = PageX1Url],
      [QualifyingClick EXCEPT !.href = U("https", ExampleCom, "/page", <<>>, "top")],
      [QualifyingClick EXCEPT !.href = U("https", WwwExampleCom, "/other", <<>>, "")],
      [QualifyingClick EXCEPT !.href = U("https", OtherCom, "/other", <<>>, "")],
      [QualifyingClick EXCEPT !.href = U("mailto", <<>>, "a@example.com", <<>>, "")],
      [QualifyingClick EXCEPT !.href = U("ftp", ExampleCom, "/other", <<>>, "")],
      [QualifyingClick EXCEPT !.href = U("httpx", ExampleCom, "/other", <<>>, "")],
      [QualifyingClick EXCEPT !.href = U("http", WwwExampleCom, "/page", <<X1>>, "")],
      [QualifyingClick EXCEPT !.href = PageX2Url],
      [QualifyingClick EXCEPT !.href = PageX1Y2Url],
      [QualifyingClick EXCEPT !.href = PageY2X1Url],
      [QualifyingClick EXCEPT !.href = U("https", ExampleCom, "/page", <<X1>>, "top")],
      [QualifyingClick EXCEPT !.target = "_blank", !.href = Malformed] }

\* a CustomEvent dispatched on the document: its target is the document,
\* which has no closest()
Signal == Ev(FALSE, FALSE, "", FALSE, FALSE, Malformed)

\* one more user operation
UserOp == ops < MaxOps /\ ops' = ops + 1

Init ==
    /\ initialPosition \in InitialPositions
    /\ showSpinner \in BOOLEAN
    /\ ignoreSearchParams = FALSE
    /\ delay = 0
    /\ nEngines = 1
    /\ mounted = 1
    /\ listeners = addListeners(<<>>, 1)
    /\ ops = 0
    /\ progressN = [e \in Engines |-> Null]
    /\ bar = [e \in Engines |-> NoNode]
    /\ docBars = <<>>
    /\ docSpinners = 0
    /\ faded = {}
    /\ pending = <<>>
    /\ timers = <<>>
    /\ stalled = 0
    /\ wrappers = <<>>
    /\ location = PageUrl
    /\ trace = <<>>
    /\ watch = [n |-> 0, e |-> 0]

\* useEffect: a new HolyProgress, and the click listener is attached
Mount ==
    /\ UserOp
    /\ mounted = 0
    /\ nEngines' = nEngines + 1
    /\ mounted' = nEngines + 1
    /\ listeners' = addListeners(listeners, nEngines + 1)
    /\ trace' = <<>>
    /\ UNCHANGED <<settings, progressN, bar, docBars, docSpinners, faded, pending,
                   timers, stalled, wrappers, location, watch>>

\* the component unmounts: the effect's cleanup runs
Unmount ==
    /\ UserOp
    /\ mounted # 0
    /\ mounted' = 0
    /\ listeners' = cleanup(listeners, mounted)
    /\ trace' = <<>>
    /\ UNCHANGED <<settings, nEngines, progressN, bar, docBars, docSpinners, faded,
                   pending, timers, stalled, wrappers, location, watch>>

\* the user clicks somewhere in the document
ClickOf(ev) ==
    /\ UserOp
    /\ Commit(dispatchEvent(Cur, listeners, "click", ev))
    /\ UNCHANGED binders

Click == \E ev \in ClickEvents : ClickOf(ev)

PushState ==
    /\ UserOp
    /\ \E url \in NavUrls : Commit(pushState(Cur, url))
    /\ UNCHANGED binders

ReplaceState ==
    /\ UserOp
    /\ \E url \in NavUrls : Commit(replaceState(Cur, url))
    /\ UNCHANGED binders

\* the timer at the head of the FIFO expires
Rest == [Cur EXCEPT !.timers = Tail(@)]

TrickleTick ==
    /\ timers # <<>>
    /\ Head(timers).kind = "trickle"
    /\ Commit(run(Rest, Head(timers)))
    /\ UNCHANGED <<binders, ops>>

\* setTimeout(next, speed) of a task for a position below 1
TaskDone ==
    /\ timers # <<>>
    /\ Head(timers).kind = "next"
    /\ Commit(next(Rest))
    /\ UNCHANGED <<binders, ops>>

\* first timer of the task for position 1: opacity 0, second timer set
FadeOut ==
    /\ timers # <<>>
    /\ Head(timers).kind = "fade1"
    /\ Commit([Rest EXCEPT
                  !.faded = @ \cup (SeqToSet(docBars) \cap {Head(timers).node}),
                  !.timers =
                   Append(@, Timer("fade2", Head(timers).e, Head(timers).node))])
    /\ UNCHANGED <<binders, ops>>

\* second timer: bar and spinner leave the document, next() is called
FadeDone ==
    /\ timers # <<>>
    /\ Head(timers).kind = "fade2"
    /\ Commit(next(removeSpinnerFromDOM(removeBarFromDOM(Rest))))
    /\ UNCHANGED <<binders, ops>>

\* one transition duration of the stopwatch has elapsed
WatchTick ==
    /\ timers # <<>>
    /\ Head(timers).kind = "watch"
    /\ Commit(IF watch.n = 1
              THEN [Rest EXCEPT !.timers = Append(@, Timer("watch", 0, 0)),
                                !.watch.n = 2]
              ELSE [Rest EXCEPT !.watch.n = 3])
    /\ UNCHANGED <<binders, ops>>

\* the application dispatches one of the two signals on the document
DispatchOf(type) ==
    /\ UserOp
    /\ Commit(dispatchEvent(Cur, listeners, type, Signal))
    /\ UNCHANGED binders

Dispatch == \E type \in {START_HOLY_EVENT, STOP_HOLY_EVENT} : DispatchOf(type)

Next ==
    \/ Mount
    \/ Unmount
    \/ Click
    \/ PushState
    \/ ReplaceState
    \/ TrickleTick
    \/ TaskDone
    \/ FadeOut
    \/ FadeDone
    \/ WatchTick

Spec == Init /\ [][Next]_vars

\* ------------------------------------- the binder without history calls
\* window.location at mount, and settings.initialPosition, explored by
\* SpecBinder
BinderLocations == {PageX1Url, PageX1Y2Url}
BinderPositions == {990, 1000}

InitBinder ==
    /\ initialPosition \in BinderPositions
    /\ showSpinner \in BOOLEAN
    /\ ignoreSearchParams \in BOOLEAN
    /\ delay = 0
    /\ nEngines = 1
    /\ mounted = 1
    /\ listeners = addListeners(<<>>, 1)
    /\ ops = 0
    /\ progressN = [e \in Engines |-> Null]
    /\ bar = [e \in Engines |-> NoNode]
    /\ docBars = <<>>
    /\ docSpinners = 0
    /\ faded = {}
    /\ pending = <<>>
    /\ timers = <<>>
    /\ stalled = 0
    /\ wrappers = <<>>
    /\ location \in BinderLocations
    /\ trace = <<>>
    /\ watch = [n |-> 0, e |-> 0]

NextBinder ==
    \/ Mount
    \/ Unmount
    \/ Click
    \/ Dispatch
    \/ TrickleTick
    \/ TaskDone
    \/ FadeOut
    \/ FadeDone
    \/ WatchTick

SpecBinder == InitBinder /\ [][NextBinder]_vars

(***************************************************************************)
(* Remounts under fair timers: the component is torn down and mounted      *)
(* again, clicks and history.pushState calls arrive, and every timer that  *)
(* is due fires.                                                           *)
(***************************************************************************)
InitRemount ==
    /\ Init
    /\ initialPosition = 990
    /\ showSpinner

\* the timer at the head of the FIFO fires
TimerStep ==
    \/ TrickleTick
    \/ TaskDone
    \/ FadeOut
    \/ FadeDone
    \/ WatchTick

\* a click on an anchor whose href does not parse
MalformedClick == Ev(TRUE, TRUE, "", FALSE, FALSE, Malformed)

NextRemount ==
    \/ Mount
    \/ Unmount
    \/ ClickOf(QualifyingClick)
    \/ ClickOf(MalformedClick)
    \/ PushState
    \/ TimerStep

SpecRemount == InitRemount /\ [][NextRemount]_vars /\ WF_vars(TimerStep)

(***************************************************************************)
(* The component rendered with a delay option: <HolyLoader delay={d} />.   *)
(***************************************************************************)
Delays == {0, 200}

InitDelay ==
    /\ initialPosition \in BinderPositions
    /\ showSpinner = TRUE
    /\ ignoreSearchParams = FALSE
    /\ delay \in Delays
    /\ nEngines = 1
    /\ mounted = 1
    /\ listeners = addListeners(<<>>, 1)
    /\ ops = 0
    /\ progressN = [e \in Engines |-> Null]
    /\ bar = [e \in Engines |-> NoNode]
    /\ docBars = <<>>
    /\ docSpinners = 0
    /\ faded = {}
    /\ pending = <<>>
    /\ timers = <<>>
    /\ stalled = 0
    /\ wrappers = <<>>
    /\ location = PageX1Url
    /\ trace = <<>>
    /\ watch = [n |-> 0, e |-> 0]

SpecDelay == InitDelay /\ [][NextBinder]_vars

\* ------------------------------------------------ the engine used directly
\* settings.initialPosition and explicit amounts explored by SpecInc
IncPositions == {0, 80, 500, 994, 997, 1000}
Amounts == {NoAmount, -500, 7, 300, 2000}

InitInc ==
    /\ initialPosition \in IncPositions
    /\ showSpinner = FALSE
    /\ ignoreSearchParams = FALSE
    /\ delay = 0
    /\ nEngines = 1
    /\ mounted = 1
    /\ listeners = addListeners(<<>>, 1)
    /\ ops = 0
    /\ progressN = [e \in Engines |-> Null]
    /\ bar = [e \in Engines |-> NoNode]
    /\ docBars = <<>>
    /\ docSpinners = 0
    /\ faded = {}
    /\ pending = <<>>
    /\ timers = <<>>
    /\ stalled = 0
    /\ wrappers = <<>>
    /\ location = PageUrl
    /\ trace = <<>>
    /\ watch = [n |-> 0, e |-> 0]

StartCall ==
    /\ UserOp
    /\ Commit(start(Cur, 1))
    /\ UNCHANGED binders

IncrementCall ==
    /\ UserOp
    /\ \E amount \in Amounts : Commit(incrementStatus(Cur, 1, amount))
    /\ UNCHANGED binders

NextInc ==
    \/ StartCall
    \/ IncrementCall
    \/ TrickleTick
    \/ TaskDone
    \/ FadeOut
    \/ FadeDone

SpecInc == InitInc /\ [][NextInc]_vars

(***************************************************************************)
(* One engine driven by start() and complete() calls, under fair timers.   *)
(***************************************************************************)
InitQuiesce ==
    /\ Init
    /\ showSpinner

CompleteCall ==
    /\ UserOp
    /\ Commit(complete(Cur, 1))
    /\ UNCHANGED binders

NextQuiesce ==
    \/ StartCall
    \/ CompleteCall
    \/ TimerStep

SpecQuiesce == InitQuiesce /\ [][NextQuiesce]_vars /\ WF_vars(TimerStep)

\* ------------------------------------------------ the URL predicates called
\* the URLs compared, absolute and relative, keys repeated or not
QueryUrls ==
    { PageUrl, PageX1Url, PageX2Url, PageX1Y2Url, PageY2X1Url, OtherUrl,
      U("https", ExampleCom, "/page", <<X1, X2>>, ""),
      U("https", ExampleCom, "/page", <<X2, X1>>, ""),
      U("https", ExampleCom, "/page", <<X1, X1>>, ""),
      U("https", ExampleCom, "/page", <<X1>>, "top"),
      U("", <<>>, "", <<X1>>, ""),
      U("", <<>>, "/other", <<Y2, X1>>, ""),
      U("", <<>>, "", <<>>, "top") }

\* the URLs handed to isSamePageAnchor, isSameHost and toAbsoluteURL:
\* absolute ones as written (not yet parsed), and relative ones
SubExampleCom == <<"a", "example", "com">>
WwwWwwExampleCom == <<"www", "www", "example", "com">>

UrlInputs ==
    { PageUrl, PageX1Url, OtherUrl,
      U("https", ExampleCom, "/page", <<>>, "top"),
      U("https", ExampleCom, "/page/", <<>>, ""),
      U("https", ExampleCom, "", <<>>, ""),
      U("https", ExampleCom, "/", <<>>, ""),
      U("http", ExampleCom, "/page", <<>>, ""),
      U("https", WwwExampleCom, "/page", <<>>, ""),
      U("https", WwwWwwExampleCom, "/page", <<>>, ""),
      U("https", SubExampleCom, "/page", <<>>, ""),
      U("https", OtherCom, "/page", <<>>, ""),
      WithPort(PageUrl, "3000"),
      WithPort(PageUrl, "443"),
      U("", <<>>, "", <<>>, ""),
      U("", <<>>, "/page", <<>>, ""),
      U("", <<>>, "", <<X1>>, ""),
      U("", <<>>, "", <<>>, "top") }

\* window.location.href while the predicates are called
QueryLocations ==
    { PageUrl, PageX1Url, PageX1Y2Url,
      U("https", ExampleCom, "/page", <<X1>>, "top"),
      WithPort(U("https", WwwExampleCom, "/", <<>>, ""), "3000") }

InitQuery ==
    /\ initialPosition = 80
    /\ showSpinner = FALSE
    /\ ignoreSearchParams = FALSE
    /\ delay = 0
    /\ nEngines = 1
    /\ mounted = 0
    /\ listeners = <<>>
    /\ ops = 0
    /\ progressN = [e \in Engines |-> Null]
    /\ bar = [e \in Engines |-> NoNode]
    /\ docBars = <<>>
    /\ docSpinners = 0
    /\ faded = {}
    /\ pending = <<>>
    /\ timers = <<>>
    /\ stalled = 0
    /\ wrappers = <<>>
    /\ location \in QueryLocations
    /\ trace = <<>>
    /\ watch = [n |-> 0, e |-> 0]

\* hasSameQueryParameters(currentUrl, newUrl) is called; the call and what
\* it returns are logged
CallHasSameQueryParameters ==
    /\ \E currentUrl \in QueryUrls, newUrl \in QueryUrls :
          trace' = <<(<<"hasSameQueryParameters", <<currentUrl, newUrl>>>>),
                     (<<"return",
                        hasSameQueryParameters(location, currentUrl, newUrl)>>)>>
    /\ UNCHANGED <<settings, binders, progressN, bar, docBars, docSpinners, faded,
                   pending, timers, stalled, wrappers, location, ops, watch>>

\* only the log of the call changes
Logged(call) ==
    /\ trace' = call
    /\ UNCHANGED <<settings, binders, progressN, bar, docBars, docSpinners, faded,
                   pending, timers, stalled, wrappers, location, ops, watch>>

CallIsSamePageAnchor ==
    \E currentUrl \in UrlInputs, newUrl \in UrlInputs :
        Logged(<<(<<"isSamePageAnchor", <<currentUrl, newUrl>>>>),
                 (<<"return", isSamePageAnchor(location, currentUrl, newUrl)>>)>>)

CallIsSameHost ==
    \E currentUrl \in UrlInputs, newUrl \in UrlInputs :
        Logged(<<(<<"isSameHost", <<currentUrl, newUrl>>>>),
                 (<<"return", isSameHost(location, currentUrl, newUrl)>>)>>)

CallToAbsoluteURL ==
    \E url \in UrlInputs :
        Logged(<<(<<"toAbsoluteURL", <<url>>>>),
                 (<<"return", toAbsoluteURL(location, url)>>)>>)

NextQuery ==
    \/ CallHasSameQueryParameters
    \/ CallIsSamePageAnchor
    \/ CallIsSameHost
    \/ CallToAbsoluteURL

SpecQuery == InitQuery /\ [][NextQuery]_vars

(***************************************************************************)
(* The positioning strategy, as a function of the property names that      *)
(* `document.body.style` has.  A host names a vendor-prefixed property      *)
(* with the prefix and a capitalised base name, and an unprefixed one in    *)
(* lower case.                                                              *)
(***************************************************************************)
StyleNames ==
    { "WebkitTransform", "MozTransform", "msTransform", "OTransform", "transform",
      "WebkitPerspective", "MozPerspective", "msPerspective", "OPerspective",
      "perspective" }

prefixes == <<"Webkit", "Moz", "ms", "O", "">>

\* the hosts on which positions are set: those of one vendor prefix and of the
\* unprefixed names
HostStyles == SUBSET {"WebkitTransform", "WebkitPerspective", "transform", "perspective"}

Dirs == {"ltr", "rtl"}

Positions == {0, 80, 500, One}

\* (-1 + n) * 100 or (1 - n) * 100, in tenths of a percent
toBarPercentage(n, dir) == IF dir = "ltr" THEN n - One ELSE One - n

\* the loop leaves the first prefix whose `${prefix}Transform` is in style in
\* transformProp, '' when there is none; '' is also the last prefix
getTransformStrategy(style) ==
    LET found == {i \in 1..Len(prefixes) : (prefixes[i] \o "Transform") \in style}
        transformProp ==
            IF found = {} THEN ""
            ELSE prefixes[CHOOSE i \in found : \A j \in found : i <= j]
    IN IF transformProp # "" /\ (transformProp \o "Perspective") \in style
       THEN "translate3d"
       ELSE IF transformProp # "" THEN "translate" ELSE "margin"

barPositionCSS(style, n, dir) ==
    LET transformStrategy == getTransformStrategy(style)
        barPosition == toBarPercentage(n, dir)
    IN IF transformStrategy = "translate3d"
       THEN [prop |-> "transform", fn |-> "translate3d", x |-> barPosition]
       ELSE IF transformStrategy = "translate"
            THEN [prop |-> "transform", fn |-> "translate", x |-> barPosition]
            ELSE [prop |-> "marginLeft", fn |-> "", x |-> barPosition]

CallGetTransformStrategy ==
    \E style \in SUBSET StyleNames :
        Logged(<<(<<"getTransformStrategy", <<style>>>>),
                 (<<"return", getTransformStrategy(style)>>)>>)

CallBarPositionCSS ==
    \E style \in HostStyles, n \in Positions, dir \in Dirs :
        Logged(<<(<<"barPositionCSS", <<style, n, dir>>>>),
                 (<<"return", barPositionCSS(style, n, dir)>>)>>)

NextStrategy == CallGetTransformStrategy \/ CallBarPositionCSS

SpecStrategy == InitQuery /\ [][NextStrategy]_vars

\* ------------------------------------------------------------ properties
TypeOK ==
    /\ \A e \in Engines : progressN[e] = Null \/ progressN[e] \in 0..One
    /\ Len(pending) = 0
    /\ Len(docBars) <= 1

EngineTimer(t) == t.kind \in {"trickle", "next", "fade1", "fade2"}
TaskTimer(t) == t.kind \in {"next", "fade1", "fade2"}

\* tasks started whose continuation has not been invoked yet
InFlight == Len(SelectSeq(timers, TaskTimer)) + stalled

Called(tr, what) == {i \in 1..Len(tr) : tr[i][1] = what}

\* the step is a call of history.pushState / history.replaceState
HistoryStep ==
    /\ trace' # <<>>
    /\ trace'[1][1] \in {"pushState", "replaceState"}

\* progress, the document, the queue and the engine's timers are as before
EngineUntouched ==
    /\ progressN' = progressN
    /\ bar' = bar
    /\ docBars' = docBars
    /\ docSpinners' = docSpinners
    /\ pending' = pending
    /\ stalled' = stalled
    /\ SelectSeq(timers', EngineTimer) = SelectSeq(timers, EngineTimer)

\* C1: once two transition durations have elapsed since a complete() that no
\* start()/increment() followed, the engine is Idle, and neither a bar node
\* nor a spinner node is in the document.
C1_CompleteReachesIdle ==
    watch.n = 3 =>
        /\ progressN[watch.e] = Null
        /\ docBars = <<>>
        /\ docSpinners = 0

\* two durations after complete() on an engine that had mounted bar and spinner
C1_Witness ==
    /\ watch.n = 3
    /\ bar[watch.e] # NoNode
    /\ showSpinner
    /\ initialPosition < One

\* C2: at most one task of the animation queue is in flight at any time.
C2_SingleFlight == InFlight <= 1

\* C3: an Active engine (progress not null) has a bar node in the document.
C3_ActiveHasBar ==
    \A e \in Engines : progressN[e] # Null => docBars # <<>>

\* C4 as stated: an increment() call on a started engine never leaves
\* progress at 1 or above 0.994.
C4_IncrementAtMost994 ==
    [][\A e \in Engines :
         (progressN[e] # Null /\ Called(trace', "increment") # {})
            => (progressN'[e] # One /\ progressN'[e] <= PMax)]_vars

\* C4 amended: progress is never 1 and never above the larger of 0.994 and
\* the configured initialPosition.
C4_ProgressCapped ==
    \A e \in Engines :
        progressN[e] # Null =>
            (progressN[e] < One /\ progressN[e] <= Max(PMax, initialPosition))

\* increments have driven progress up to the cap of 0.994
C4_Witness ==
    /\ Called(trace, "increment") # {}
    /\ initialPosition < PMax
    /\ progressN[1] = PMax

\* C5: start() on an Active engine changes nothing: progress, bar nodes,
\* trickle loops and queued tasks are as before the qualifying click.
C5_StartWhenActiveNoOp ==
    [][(/\ mounted # 0
        /\ progressN[mounted] # Null
        /\ trace' = <<(<<"click", 0>>), (<<"handleClick", mounted>>),
                      (<<"start", mounted>>)>>)
       => EngineUntouched]_vars

\* a second qualifying click right after the first, the bar still Active
C5_Witness ==
    /\ ops = 2
    /\ wrappers = <<1, 1>>
    /\ trace = <<(<<"click", 0>>), (<<"handleClick", 1>>), (<<"start", 1>>)>>
    /\ progressN[1] # Null

\* C6: the document holds at most one node with id 'holy-progress'.
C6_AtMostOneBar == Len(docBars) <= 1

\* a bar is mounted again after an earlier one was removed
C6_Witness ==
    /\ Len(docBars) = 1
    /\ Head(docBars) > 1

\* C7: with the bar started by a click, a pushState or replaceState to a new
\* URL invokes complete() on the engine.
C7_HistoryCallCompletes ==
    [][(HistoryStep /\ location' # location)
       => \A e \in Engines :
            progressN[e] # Null =>
                \E i \in Called(trace', "complete") : trace'[i][2] = e]_vars

\* C8: once the binder has patched history, a history call to a URL with
\* another pathname or other query parameters invokes complete() before the
\* original method runs.
C8_CompleteBeforeOriginal ==
    [][(/\ HistoryStep
        /\ wrappers # <<>>
        /\ \/ ~isSamePathname(location, location, location')
           \/ ~hasSameQueryParameters(location, location, location'))
       => \E i \in Called(trace', "complete") :
            \A j \in Called(trace', "original") : i < j]_vars

C10_WrappedOnce ==
    [][HistoryStep => Cardinality(Called(trace', "complete")) <= 1]_vars

\* C11: every call of history.pushState / history.replaceState, patched or
\* not, with the binder mounted or torn down, runs the browser's own method
\* exactly once, with the URL the caller passed.
C11_PassThrough ==
    [][HistoryStep =>
         /\ Cardinality(Called(trace', "original")) = 1
         /\ \A i \in Called(trace', "original") : trace'[i][2] = trace'[1][2]]_vars

\* pushState through two wrapper layers after the binder was torn down
C11_Witness ==
    /\ mounted = 0
    /\ Len(wrappers) >= 2
    /\ trace # <<>>
    /\ trace[1][1] = "pushState"
    /\ Cardinality(Called(trace, "original")) = 1
    /\ Cardinality(Called(trace, "complete")) >= 2

\* ------------------------------------------------ clicks, as the claims
\* describe them
Modified(ev) == ev.target = "_blank" \/ ev.ctrlKey \/ ev.metaKey

\* hostnames differ after a leading 'www.' is stripped from each
DifferentHost(loc, href) == StripWww(href.host) # StripWww(loc.host)

\* the href is the location up to the fragment
FragmentAnchor(loc, href) == WithoutFragment(href) = WithoutFragment(loc)

NotHttp(href) == href.scheme \notin {"http", "https"}

\* the query string as a set of key/value pairs
KeyValues(url) == SeqToSet(url.query)

\* an unmodified click on an anchor whose href parses
PlainAnchorClick(ev) ==
    /\ ev.closest
    /\ ev.anchor
    /\ ~Modified(ev)
    /\ ev.href # Malformed

\* evaluating the click predicates raises an error
Throws(ev) ==
    \/ ~ev.closest
    \/ ev.anchor /\ ~Modified(ev) /\ ev.href = Malformed

Disqualified(loc, ev) ==
    /\ ev.closest
    /\ \/ ~ev.anchor
       \/ Modified(ev)
       \/ /\ ev.href # Malformed
          /\ \/ DifferentHost(loc, ev.href)
             \/ FragmentAnchor(loc, ev.href)
             \/ NotHttp(ev.href)

\* C12: a click that is not on an anchor, or on a target "_blank" anchor, or
\* with ctrl or meta held, or to another host, or to a fragment of the same
\* page, or to a URL that is not http(s), never calls start() and leaves
\* progress, bar, spinner and timers as they were.
C12_DisqualifiedClickIdle ==
    [][\A ev \in ClickEvents :
         (Disqualified(location, ev) /\ ClickOf(ev))
            => (Called(trace', "start") = {} /\ EngineUntouched)]_vars

\* an unmodified click on an anchor of the current host and pathname
SamePathClick(loc, ev) ==
    /\ PlainAnchorClick(ev)
    /\ ~DifferentHost(loc, ev.href)
    /\ ev.href.path = loc.path

\* C13: with default options, a click on an anchor of the same host whose
\* pathname is the current one and whose query parameters are the current
\* ones as a set of key/value pairs does not start the loader.
C13_SameQueryNoStart ==
    [][\A ev \in ClickEvents :
         (/\ ~ignoreSearchParams
          /\ SamePathClick(location, ev)
          /\ KeyValues(ev.href) = KeyValues(location)
          /\ ClickOf(ev))
            => Called(trace', "start") = {}]_vars

\* C14: with ignoreSearchParams set, a click on an anchor of the same host
\* whose pathname is the current one does not start the loader, whatever
\* the two query strings.
C14_IgnoreSearchParamsNoStart ==
    [][\A ev \in ClickEvents :
         (/\ ignoreSearchParams
          /\ SamePathClick(location, ev)
          /\ ClickOf(ev))
            => Called(trace', "start") = {}]_vars

\* the clicks whose predicates raise an error
ThrowingClicks == {ev \in ClickEvents : Throws(ev)}

C17_NullOnlyAfterExit ==
    [][\A e \in Engines :
         (progressN[e] # Null /\ progressN'[e] = Null) => docBars' = <<>>]_vars

\* what a direct call leaves of progress, the document, the queue and the
\* engine's timers is what the step leaves
SameEngineEffect(s) ==
    /\ progressN' = s.progressN
    /\ bar' = s.bar
    /\ docBars' = s.docBars
    /\ docSpinners' = s.docSpinners
    /\ faded' = s.faded
    /\ pending' = s.pending
    /\ stalled' = s.stalled
    /\ SelectSeq(timers', EngineTimer) = SelectSeq(s.timers, EngineTimer)

\* C18: while a binder is mounted, dispatching 'holy-progress-start' on the
\* document does what start() does on its engine, and dispatching
\* 'holy-progress-stop' does what complete() does.
C18_SignalsReachEngine ==
    [][mounted # 0 =>
         /\ DispatchOf(START_HOLY_EVENT) => SameEngineEffect(start(Cur, mounted))
         /\ DispatchOf(STOP_HOLY_EVENT) => SameEngineEffect(complete(Cur, mounted))]_vars

\* the events the binder may listen to
EventTypes == {"click", START_HOLY_EVENT, STOP_HOLY_EVENT}

\* C19: a click or a start/stop signal dispatched on the document runs the
\* handler of the mounted binder only: after teardown it calls neither
\* start() nor complete() on that binder's engine.
C19_TornDownHearsNothing ==
    [][(trace' # <<>> /\ trace'[1][1] \in EventTypes)
       => \A i \in 1..Len(trace') :
            trace'[i][1] \in {"handleClick", "start", "complete"}
               => (mounted # 0 /\ trace'[i][2] = mounted)]_vars

\* a click in the document after the teardown of a binder whose bar is Active
C19_Witness ==
    /\ mounted = 0
    /\ listeners = <<>>
    /\ progressN[1] # Null
    /\ trace = <<(<<"click", 0>>)>>

\* C20: hasSameQueryParameters(a, b) is true exactly when the query strings
\* of a and b, each resolved against the location, hold the same set of
\* key/value pairs; in particular hasSameQueryParameters(a, a) is true.
C20_SameQueryIffSameSet ==
    (trace # <<>> /\ trace[1][1] = "hasSameQueryParameters") =>
        LET a == toAbsoluteURL(location, trace[1][2][1])
            b == toAbsoluteURL(location, trace[1][2][2])
        IN trace[2][2] = (KeyValues(a) = KeyValues(b))

\* the call logged last is a call of `name`
Returned(name) == trace # <<>> /\ trace[1][1] = name

\* C21: hasSameQueryParameters(a, b) = hasSameQueryParameters(b, a), and it
\* is false when exactly one of the two URLs has query parameters.
C21_SameQuerySymmetric ==
    Returned("hasSameQueryParameters") =>
        LET a == trace[1][2][1]
            b == trace[1][2][2]
            oneEmpty == (toAbsoluteURL(location, a).query = <<>>)
                            # (toAbsoluteURL(location, b).query = <<>>)
        IN /\ trace[2][2] = hasSameQueryParameters(location, b, a)
           /\ oneEmpty => ~trace[2][2]

\* only the new URL has parameters, and the answer is false
C21_Witness ==
    /\ Returned("hasSameQueryParameters")
    /\ toAbsoluteURL(location, trace[1][2][1]).query = <<>>
    /\ toAbsoluteURL(location, trace[1][2][2]).query # <<>>
    /\ ~trace[2][2]

\* a URL as the caller wrote it, a relative one resolved against the location
Resolved(loc, url) ==
    IF url.scheme # "" THEN url
    ELSE IF url.path # ""
         THEN [loc EXCEPT !.path = url.path, !.query = url.query, !.frag = url.frag]
    ELSE IF url.query # <<>>
         THEN [loc EXCEPT !.query = url.query, !.frag = url.frag]
    ELSE [loc EXCEPT !.frag = url.frag]

\* equal in everything but the fragment
SameButFragment(a, b) ==
    /\ a.scheme = b.scheme
    /\ a.host = b.host
    /\ a.port = b.port
    /\ a.path = b.path
    /\ a.query = b.query

\* C22 as stated: isSamePageAnchor(a, b) is true exactly when a and b, as
\* written, are identical once the fragment is stripped; a trailing slash
\* makes them differ.
C22_SamePageIffIdentical ==
    Returned("isSamePageAnchor") =>
        trace[2][2] = SameButFragment(Resolved(location, trace[1][2][1]),
                                      Resolved(location, trace[1][2][2]))

\* C22 amended: isSamePageAnchor(a, b) is true exactly when the parsed URLs
\* agree in scheme, hostname, port, pathname and query, where the parser
\* gives an http(s) URL without path the path '/' and drops a default port.
C22_SamePageIffSameParsed ==
    Returned("isSamePageAnchor") =>
        trace[2][2] = SameButFragment(Normalised(Resolved(location, trace[1][2][1])),
                                      Normalised(Resolved(location, trace[1][2][2])))

\* https://example.com/page/ against a location https://example.com/page...:
\* a trailing slash after a path, and the answer is false
C22_Witness ==
    /\ Returned("isSamePageAnchor")
    /\ trace[1][2][1].path = "/page/"
    /\ trace[1][2][2] = PageUrl
    /\ ~trace[2][2]

\* C23: isSameHost(a, b) is true exactly when the hostnames of the two URLs
\* (a relative URL has the location's hostname) are equal after one leading
\* "www." is removed from each; giving an absolute argument another scheme or
\* port never changes the result, and two relative URLs give true.
Schemes == {"http", "https"}
Ports == {"", "80", "3000"}

EmptyUrl == U("", <<>>, "", <<>>, "")

C25_DelayedMount ==
    [][(/\ ClickOf(QualifyingClick)
        /\ mounted # 0
        /\ progressN[mounted] = Null
        /\ docBars = <<>>)
          => IF delay > 0 THEN docBars' = <<>> ELSE docBars' # <<>>]_vars

\* C26: the tick of a trickle loop that was running when complete() was
\* called changes no engine's progress and schedules no further tick of
\* that loop, whether or not start() has been called again in between.
C26_FinishedLoopStops ==
    [][(TrickleTick /\ Head(timers).node = Finished)
          => /\ progressN' = progressN
             /\ Len(SelectSeq(timers', LAMBDA t : t = Head(timers)))
                  < Len(SelectSeq(timers, LAMBDA t : t = Head(timers)))]_vars

\* C27 as stated: while complete() is never called, a mounted bar stays in
\* the document and its engine stays started, whatever timers expire.
C27_NeverSelfCompletes ==
    [][docBars # <<>> => (docBars' # <<>> /\ progressN'[1] # Null)]_vars

\* C27 amended: with initialPosition below 1 and complete() never called, a
\* mounted bar stays in the document and its engine stays started, whatever
\* timers expire and whatever increments are made.
C27_NeverSelfCompletesBelowOne ==
    [][(initialPosition < One /\ docBars # <<>>)
          => (docBars' # <<>> /\ progressN'[1] # Null)]_vars

\* a trickle tick has found progress at the cap and has left it there, the
\* bar in the document
C27_Witness ==
    /\ trace = <<(<<"increment", 1>>)>>
    /\ initialPosition = 0
    /\ progressN[1] = PMax
    /\ docBars = <<1>>
    /\ \E i \in 1..Len(timers) : timers[i].kind = "trickle"

\* C28: a bar container leaves the document only with opacity 0, and not
\* while the first of the two transition durations after the most recent
\* complete() is still running.
C28_FadedBeforeRemoved ==
    [][\A node \in NodeIds :
         (node \in SeqToSet(docBars) /\ node \notin SeqToSet(docBars'))
            => (node \in faded /\ watch.n # 1)]_vars

\* the timer a task arms when it starts
StartTimer(t) == t.kind \in {"next", "fade1"}

\* a task of the queue has started in this step: it has armed its timer or
\* has returned without one
TaskStarts ==
    \/ Len(SelectSeq(timers', StartTimer)) > Len(SelectSeq(timers, StartTimer))
    \/ stalled' > stalled

\* C29: once a started task has returned without invoking its continuation,
\* no task starts any more.
C29_StalledQueueStartsNothing ==
    [][stalled >= 1 => ~TaskStarts]_vars

\* C30: no started task has returned without arming the timer that invokes
\* its continuation.
C30_EveryTaskContinues == stalled = 0

\* trickle timers of engine e: one per live trickle loop
Loops(ts, e) == Len(SelectSeq(ts, LAMBDA t : t.kind = "trickle" /\ t.e = e))

\* C31, for initialPosition below 1: start() on an Idle engine leaves
\* progress at initialPosition, a bar node in the document and exactly one
\* trickle loop of that engine scheduled.
C31_StartFromIdle ==
    [][\A e \in Engines :
         (/\ initialPosition < One
          /\ progressN[e] = Null
          /\ \E i \in Called(trace', "start") : trace'[i][2] = e)
            => (/\ progressN'[e] = initialPosition
                /\ docBars' # <<>>
                /\ Loops(timers', e) = 1)]_vars

C33_AtMostOneSpinner ==
    /\ docSpinners <= 1
    /\ ~showSpinner => docSpinners = 0

\* start() has run createSpinner while the spinner of the previous run was
\* still in the document: one spinner node
C33_Witness ==
    /\ showSpinner
    /\ Called(trace, "start") # {}
    /\ Loops(timers, 1) = 2
    /\ docSpinners = 1

\* C34: with showSpinner enabled, whenever an engine is Active the spinner
\* node is in the document.
C34_ActiveHasSpinner ==
    showSpinner =>
        \A e \in Engines : progressN[e] # Null => docSpinners = 1

\* history.pushState has just been called on a remounted component whose
\* engine had wrapped it at a qualifying click: the call has run complete()
\* on that engine
RemountedPushState ==
    /\ nEngines >= 2
    /\ mounted = nEngines
    /\ trace # <<>>
    /\ trace[1][1] = "pushState"
    /\ \E i \in Called(trace, "complete") : trace[i][2] = mounted

C36_IdleCompleteMountsNothing ==
    [][(/\ \A e \in Engines : progressN[e] = Null
        /\ docBars = <<>>
        /\ Called(trace', "complete") # {}
        /\ Called(trace', "start") = {})
          => docBars' = <<>>]_vars

\* no timer of the engine is pending and the queue holds no task
Quiescent ==
    /\ SelectSeq(timers, EngineTimer) = <<>>
    /\ pending = <<>>

\* C37: when the last call made on the engine is a complete(), the engine
\* eventually has no pending trickle, continuation or fade timer and no
\* queued task, and stays so.
C37_Quiescence == <>[](watch.n # 0) => <>[]Quiescent

\* start(), complete(), start() and complete() were called in quick
\* succession: two trickle loops and several task timers have drained
C37_Witness ==
    /\ ops >= 4
    /\ watch.n = 3
    /\ bar[1] # NoNode
    /\ initialPosition < One
    /\ Quiescent

\* C38: a trickle tick (a timer step that calls incrementStatus) leaves a
\* started engine started, with progress at or above its previous value.
C38_TickNeverDecreases ==
    [][(ops' = ops /\ Called(trace', "increment") # {})
          => \A e \in Engines :
                progressN[e] # Null =>
                    (progressN'[e] # Null /\ progressN'[e] >= progressN[e])]_vars

\* the first trickle tick of a run has moved progress up from initialPosition
\* and has re-armed the loop
C38_Witness ==
    /\ initialPosition = 80
    /\ trace = <<(<<"increment", 1>>)>>
    /\ progressN[1] > 80
    /\ progressN[1] < 200
    /\ timers # <<>>
    /\ timers[Len(timers)].kind = "trickle"

\* the terminal tasks that have started and whose fade-out has not begun
Fades(ts) == SelectSeq(ts, LAMBDA t : t.kind = "fade1")

\* engines of the complete() calls of a trace, in call order: each call
\* enqueues one terminal task
CompleteOrder(tr) ==
    LET calls == SelectSeq(tr, LAMBDA x : x[1] = "complete") IN
    [i \in 1..Len(calls) |-> calls[i][2]]

\* C39: the tasks enqueued in a step are started inside their enqueue calls,
\* in the order of the calls: when the step ends no task waits in `pending`,
\* and (when no task returned early) the terminal tasks started in the step
\* are those of the step's complete() calls, in call order.
C39_Fifo ==
    [][Called(trace', "complete") # {}
         => /\ pending' = <<>>
            /\ (stalled' = stalled /\ stalled < MaxStalled)
                 => LET old == Len(Fades(timers))
                        new == SubSeq(Fades(timers'), old + 1, Len(Fades(timers')))
                    IN [i \in 1..Len(new) |-> new[i].e] = CompleteOrder(trace')]_vars

\* one history.pushState call has completed two engines, and both terminal
\* tasks have started, in call order
C39_Witness ==
    /\ Len(CompleteOrder(trace)) = 2
    /\ CompleteOrder(trace)[1] # CompleteOrder(trace)[2]
    /\ stalled = 0
    /\ Len(Fades(timers)) = 2
    /\ [i \in 1..2 |-> Fades(timers)[i].e] = CompleteOrder(trace)

\* a transform property of the host with its matching perspective property
TransformPairs ==
    { <<"WebkitTransform", "WebkitPerspective">>, <<"MozTransform", "MozPerspective">>,
      <<"msTransform", "msPerspective">>, <<"OTransform", "OPerspective">>,
      <<"transform", "perspective">> }

\* C40: whatever properties the host's style has, the strategy is margin
\* exactly when no transform property is supported, translate3d when every
\* supported transform property has its perspective property, and translate
\* when none has; barPositionCSS positions the bar by that strategy.
C40_StrategyBySupport ==
    (Returned("getTransformStrategy") \/ Returned("barPositionCSS")) =>
        LET style == trace[1][2][1]
            strategy == IF Returned("barPositionCSS")
                        THEN (IF trace[2][2].prop = "marginLeft"
                              THEN "margin" ELSE trace[2][2].fn)
                        ELSE trace[2][2]
            supported == {p \in TransformPairs : p[1] \in style}
            with3d == {p \in supported : p[2] \in style}
        IN /\ (strategy = "margin") <=> (supported = {})
           /\ (supported # {} /\ with3d = supported) => strategy = "translate3d"
           /\ (supported # {} /\ with3d = {}) => strategy = "translate"

====
